---- MODULE Spec2Model ----
(***************************************************************************)
(* Three-qubit bit-flip code: the classical majority-vote decoders, the    *)
(* circuit builders and the handlers that run a circuit on the ideal       *)
(* simulator and report its counts.                                        *)
(*                                                                         *)
(* A bit string is a sequence of one-character strings.  A circuit is a    *)
(* sequence of gate records.  A quantum state is a function from the       *)
(* basis states of three qubits to an (unnormalised) integer amplitude.    *)
(* Every handler is one action; its result replaces the previous one.      *)
(* The upload folder of the blob API is the only state that outlives a     *)
(* request; its handlers form a specification of their own, SpecBlob.      *)
(* SpecConc runs two callers of the core functions statement by statement, *)
(* each in its own call frame.                                             *)
(***************************************************************************)
EXTENDS Integers, Sequences, FiniteSets, TLC

VARIABLES op, args, circuit, counts, ret,
          sim_calls,  \* simulator.run invocations made by the last handler
          files,      \* the upload folder: stored name -> content
          now,        \* the clock, in seconds
          deleted,    \* history: the names a DELETE has removed
          frames      \* the call frame of each concurrent caller

vars ==
  <<op, args, circuit, counts, ret, sim_calls, files, now, deleted, frames>>
\* what the quantum handlers never touch
blob == <<files, now, deleted>>

\* ---------------------------------------------------------------- bounds
MaxLen == 4
MaxShots == 3

\* ------------------------------------------------------- program constants
None == -100
FlaskShots == 1000
CliShots == 100
RandScale == 2
DefaultErrorProbability == RandScale

Chars == {"0", "1", "a"}
Qubits == {0, 1, 2}
BitStrings == UNION {[1..n -> Chars] : n \in 0..MaxLen}
NoCircuit == <<>>
NoCounts == <<>>

\* ------------------------------------------------------- python str helpers
\* str.count(c)
count(s, c) == Cardinality({i \in 1..Len(s) : s[i] = c})

\* str.index(c): 0-based index of the first occurrence, None when there is
\* none (python raises ValueError there; callers test for None).
index(s, c) ==
  IF \E i \in 1..Len(s) : s[i] = c
  THEN (CHOOSE i \in 1..Len(s) : s[i] = c /\ \A j \in 1..(i - 1) : s[j] # c) - 1
  ELSE None

\* ------------------------------------------------------ majority_vote
LengthOk_off(s) == Len(s) <= 3

LengthOk(s) == Len(s) = 3

MajorityBit_flipped(s) == IF count(s, "0") > count(s, "1") THEN "1" ELSE "0"

MajorityBit(s) == IF count(s, "0") > count(s, "1") THEN "0" ELSE "1"

MinorityBit_same(s) == MajorityBit(s)

MinorityBit(s) == IF MajorityBit(s) = "0" THEN "1" ELSE "0"

AllAgree_zero(s) == count(s, "0") = 3

AllAgree(s) == count(s, "0") = 3 \/ count(s, "1") = 3

\* majority_vote(bit_string) -> (majority_bit, error_detected, error_position)
majority_vote(s) ==
  IF ~LengthOk(s)
  THEN [status |-> "ValueError", msg |-> "Bit string must be exactly 3 bits"]
  ELSE IF AllAgree(s)
  THEN [status |-> "ok", majority_bit |-> MajorityBit(s),
        error_detected |-> FALSE, error_position |-> None]
  ELSE IF index(s, MinorityBit(s)) = None
  THEN [status |-> "ValueError", msg |-> "substring not found"]
  ELSE [status |-> "ok", majority_bit |-> MajorityBit(s),
        error_detected |-> TRUE, error_position |-> index(s, MinorityBit(s))]

majority_vote_correction_no_fix(s) ==
  IF ~LengthOk(s)
  THEN [status |-> "ValueError", msg |-> "Expected 3-bit string"]
  ELSE IF AllAgree(s)
  THEN [status |-> "ok", corrected_string |-> s,
        error_position |-> None, correction_applied |-> FALSE]
  ELSE IF index(s, MinorityBit(s)) = None
  THEN [status |-> "ValueError", msg |-> "substring not found"]
  ELSE [status |-> "ok", corrected_string |-> s,
        error_position |-> index(s, MinorityBit(s)),
        correction_applied |-> TRUE]

majority_vote_correction_first(s) ==
  IF ~LengthOk(s)
  THEN [status |-> "ValueError", msg |-> "Expected 3-bit string"]
  ELSE IF AllAgree(s)
  THEN [status |-> "ok", corrected_string |-> s,
        error_position |-> None, correction_applied |-> FALSE]
  ELSE IF index(s, MinorityBit(s)) = None
  THEN [status |-> "ValueError", msg |-> "substring not found"]
  ELSE [status |-> "ok",
        corrected_string |-> [s EXCEPT ![1] = MajorityBit(s)],
        error_position |-> index(s, MinorityBit(s)),
        correction_applied |-> TRUE]

\* majority_vote_correction(bit_string)
\*   -> (corrected_string, error_position, correction_applied)
majority_vote_correction(s) ==
  IF ~LengthOk(s)
  THEN [status |-> "ValueError", msg |-> "Expected 3-bit string"]
  ELSE IF AllAgree(s)
  THEN [status |-> "ok", corrected_string |-> s,
        error_position |-> None, correction_applied |-> FALSE]
  ELSE IF index(s, MinorityBit(s)) = None
  THEN [status |-> "ValueError", msg |-> "substring not found"]
  ELSE [status |-> "ok",
        corrected_string |->
          [s EXCEPT ![index(s, MinorityBit(s)) + 1] = MajorityBit(s)],
        error_position |-> index(s, MinorityBit(s)),
        correction_applied |-> TRUE]

detect_error_first_bit(s) ==
  IF AllAgree(s)
  THEN [status |-> "ok", error_detected |-> FALSE,
        error_position |-> None, majority_bit |-> MajorityBit(s)]
  ELSE IF index(s, MinorityBit(s)) = None
  THEN [status |-> "ValueError", msg |-> "substring not found"]
  ELSE [status |-> "ok", error_detected |-> TRUE,
        error_position |-> index(s, MinorityBit(s)),
        majority_bit |-> s[1]]

\* BitFlipErrorCorrection.detect_error(measurement)
\*   -> (error_detected, error_position, majority_bit); no length check
detect_error(s) ==
  IF AllAgree(s)
  THEN [status |-> "ok", error_detected |-> FALSE,
        error_position |-> None, majority_bit |-> MajorityBit(s)]
  ELSE IF index(s, MinorityBit(s)) = None
  THEN [status |-> "ValueError", msg |-> "substring not found"]
  ELSE [status |-> "ok", error_detected |-> TRUE,
        error_position |-> index(s, MinorityBit(s)),
        majority_bit |-> MajorityBit(s)]

\* ------------------------------------------------------------- circuits
\* Gate records appended by QuantumCircuit.x / cx / h / barrier / measure.
\* QuantumCircuit resolves an integer qubit specifier as a python list index
\* into its three qubits: -3..-1 count from the end, anything else outside
\* 0..2 raises CircuitError (OutOfRange here; see Raises).
OutOfRange == -101
qubit_at(i) ==
  IF i \in 0..2 THEN i ELSE IF i \in (-3)..(-1) THEN i + 3 ELSE OutOfRange

X(q) == [g |-> "x", q |-> qubit_at(q), t |-> None, label |-> ""]
CX(c, t) == [g |-> "cx", q |-> c, t |-> t, label |-> ""]
H(q) == [g |-> "h", q |-> q, t |-> None, label |-> ""]
Barrier(label) == [g |-> "barrier", q |-> None, t |-> None, label |-> label]
\* qc.measure([0, 1, 2], [0, 1, 2]): qubit i into classical bit i
MeasureAll == [g |-> "measure", q |-> None, t |-> None, label |-> ""]

\* the construction of qc raised CircuitError at a qc.x(index)
Raises(qc) == \E i \in 1..Len(qc) : qc[i].g = "x" /\ qc[i].q = OutOfRange
CircuitError == [status |-> "CircuitError", msg |-> "Index out of range"]

\* ----------------------------------------------- the ideal simulator
Basis == [Qubits -> {0, 1}]
Zero == [q \in Qubits |-> 0]
InitAmp == [b \in Basis |-> IF b = Zero THEN 1 ELSE 0]
Flip(b, q) == [b EXCEPT ![q] = 1 - b[q]]

ApplyX(amp, q) == [b \in Basis |-> amp[Flip(b, q)]]

ApplyCX(amp, c, t) ==
  [b \in Basis |-> IF b[c] = 1 THEN amp[Flip(b, t)] ELSE amp[b]]

ApplyH(amp, q) ==
  [b \in Basis |-> amp[[b EXCEPT ![q] = 0]]
                   + (IF b[q] = 1 THEN -1 ELSE 1) * amp[[b EXCEPT ![q] = 1]]]

Support(amp) == {b \in Basis : amp[b] # 0}
Collapse(b) == [x \in Basis |-> IF x = b THEN 1 ELSE 0]

\* One shot: the classical registers a run of circ[i..] can end with.
RECURSIVE RunFrom(_, _, _, _)
RunFrom(circ, i, amp, cl) ==
  IF i > Len(circ) THEN {cl}
  ELSE LET gate == circ[i] IN
    CASE gate.g = "x" -> RunFrom(circ, i + 1, ApplyX(amp, gate.q), cl)
      [] gate.g = "cx" -> RunFrom(circ, i + 1, ApplyCX(amp, gate.q, gate.t), cl)
      [] gate.g = "h" -> RunFrom(circ, i + 1, ApplyH(amp, gate.q), cl)
      [] gate.g = "measure" ->
           UNION {RunFrom(circ, i + 1, Collapse(b), b) : b \in Support(amp)}
      [] OTHER -> RunFrom(circ, i + 1, amp, cl)

Bit(v) == IF v = 1 THEN "1" ELSE "0"

\* Result.get_counts key: classical bit 2 is the leftmost character
Key(cl) == <<Bit(cl[2]), Bit(cl[1]), Bit(cl[0])>>

Outcomes(circ) == {Key(cl) : cl \in RunFrom(circ, 1, InitAmp, Zero)}

\* qc.reset(qr[q]); qc.x(qr[q]).c_if(cr_syndrome[clbit], 1);
\* qc.measure(qr, register)
Reset(q) == [g |-> "reset", q |-> q, t |-> None, label |-> ""]
XIfSyndrome(q, clbit) == [g |-> "x_if", q |-> q, t |-> clbit, label |-> "syndrome"]
MeasureInto(register) ==
  [g |-> "measure_register", q |-> None, t |-> None, label |-> register]

NoRegisters == [syndrome |-> Zero, final |-> Zero]

\* One shot of a circuit with the classical registers 'syndrome' and
\* 'final': the register contents a run of circ[i..] can end with.  A reset
\* measures the qubit and leaves it in |0>.
RECURSIVE RunRegisters(_, _, _, _)
RunRegisters(circ, i, amp, regs) ==
  IF i > Len(circ) THEN {regs}
  ELSE LET gate == circ[i] IN
    CASE gate.g = "x" -> RunRegisters(circ, i + 1, ApplyX(amp, gate.q), regs)
      [] gate.g = "cx" ->
           RunRegisters(circ, i + 1, ApplyCX(amp, gate.q, gate.t), regs)
      [] gate.g = "reset" ->
           UNION {RunRegisters(circ, i + 1,
                               Collapse([b EXCEPT ![gate.q] = 0]), regs)
                  : b \in Support(amp)}
      [] gate.g = "x_if" ->
           RunRegisters(circ, i + 1,
                        IF regs.syndrome[gate.t] = 1
                        THEN ApplyX(amp, gate.q) ELSE amp,
                        regs)
      [] gate.g = "measure_register" ->
           UNION {RunRegisters(circ, i + 1, Collapse(b),
                               [regs EXCEPT ![gate.label] = b])
                  : b \in Support(amp)}
      [] OTHER -> RunRegisters(circ, i + 1, amp, regs)

\* Result.get_counts key of a circuit with two registers: the register
\* added last is leftmost, a space between them ('fff sss')
RegistersKey(regs) == Key(regs.final) \o <<" ">> \o Key(regs.syndrome)
final_of(key) == SubSeq(key, 1, 3)
syndrome_of(key) == SubSeq(key, 5, 7)

RegisterOutcomes(circ) ==
  {RegistersKey(regs) : regs \in RunRegisters(circ, 1, InitAmp, NoRegisters)}

\* Every tally of n shots over the outcomes S; an outcome never observed
\* has no entry.
RECURSIVE Tallies(_, _)
Tallies(S, n) ==
  IF S = {} THEN (IF n = 0 THEN {<<>>} ELSE {})
  ELSE LET x == CHOOSE x \in S : TRUE IN
    IF S = {x} THEN (IF n = 0 THEN {<<>>} ELSE {x :> n})
    ELSE UNION {{IF k = 0 THEN f ELSE (x :> k) @@ f : f \in Tallies(S \ {x}, n - k)}
                : k \in 0..n}

\* simulator.run(transpile(qc, simulator), shots).result().get_counts()
Simulate(circ, shots) == Tallies(Outcomes(circ), shots)

\* dict.get(key, 0)
get(c, key) == IF key \in DOMAIN c THEN c[key] ELSE 0
\* sum(counts.values())
RECURSIVE SumOver(_, _)
SumOver(c, D) ==
  IF D = {} THEN 0
  ELSE LET x == CHOOSE x \in D : TRUE IN c[x] + SumOver(c, D \ {x})
total(c) == SumOver(c, DOMAIN c)
\* (count / shots) * 100, as a whole percentage
rate(n, shots) == (n * 100) \div shots

Str000 == <<"0", "0", "0">>
Str111 == <<"1", "1", "1">>
Superposition == <<"superposition">>
InitialStates == {"0", "1", "+", "-"}

\* ------------------------------------------------------ circuit builders
\* state preparation shared by the '0'/'1' builders: if initial_state == '1'
Prepare(initial_state) == IF initial_state = "1" THEN <<X(0)>> ELSE <<>>

\* bit_flip_error_simulation.create_circuit_with_error
create_circuit_with_error(initial_state, error_qubit) ==
  Prepare(initial_state)
  \o <<Barrier("Init"), CX(0, 1), CX(0, 2)>>
  \o (IF error_qubit # None THEN <<Barrier("Error"), X(error_qubit)>> ELSE <<>>)
  \o <<Barrier("Measure"), MeasureAll>>

\* majority_vote_detection.add_error_and_measure
add_error_and_measure(qc, error_qubit) ==
  qc
  \o (IF error_qubit # None THEN <<Barrier("Error"), X(error_qubit)>> ELSE <<>>)
  \o <<Barrier("Measure"), MeasureAll>>

\* the circuit of one test case of demonstrate_majority_vote
demonstrate_circuit(initial_state, error_qubit) ==
  add_error_and_measure(
    Prepare(initial_state) \o <<Barrier("Init"), CX(0, 1), CX(0, 2)>>,
    error_qubit)

\* automatic_error_correction.create_error_correction_circuit_v2: qc_error
v2_error(initial_state, error_qubit) ==
  Prepare(initial_state)
  \o <<Barrier("Init"), CX(0, 1), CX(0, 2), Barrier("Encode")>>
  \o (IF error_qubit # None THEN <<X(error_qubit), Barrier("Error")>> ELSE <<>>)
  \o <<MeasureAll>>

v2_corrected_wrong_qubit(initial_state, error_qubit) ==
  Prepare(initial_state)
  \o <<Barrier("Init"), CX(0, 1), CX(0, 2), Barrier("Encode")>>
  \o (IF error_qubit # None
      THEN <<X(error_qubit), Barrier("Error"),
             X((error_qubit + 1) % 3), Barrier("Correct")>>
      ELSE <<>>)
  \o <<MeasureAll>>

\* automatic_error_correction.create_error_correction_circuit_v2: qc_corrected
v2_corrected(initial_state, error_qubit) ==
  Prepare(initial_state)
  \o <<Barrier("Init"), CX(0, 1), CX(0, 2), Barrier("Encode")>>
  \o (IF error_qubit # None
      THEN <<X(error_qubit), Barrier("Error"),
             X(error_qubit), Barrier("Correct")>>
      ELSE <<>>)
  \o <<MeasureAll>>

flask_encode_circuit_one_cx(initial_state) ==
  Prepare(initial_state) \o <<CX(0, 1), MeasureAll>>

\* flask_backend.encode: the circuit
flask_encode_circuit(initial_state) ==
  Prepare(initial_state) \o <<CX(0, 1), CX(0, 2), MeasureAll>>

\* flask_backend.correct: the circuit
flask_correct_circuit(initial_state, error_qubit) ==
  Prepare(initial_state)
  \o <<CX(0, 1), CX(0, 2), Barrier("Encode"),
       X(error_qubit), Barrier("Error"),
       X(error_qubit), Barrier("Correct"), MeasureAll>>

flask_pipeline_circuit_no_decode(initial_state, error_qubit) ==
  Prepare(initial_state)
  \o <<CX(0, 1), CX(0, 2), X(error_qubit), X(error_qubit), MeasureAll>>

\* flask_backend.pipeline: the circuit
flask_pipeline_circuit(initial_state, error_qubit) ==
  Prepare(initial_state)
  \o <<CX(0, 1), CX(0, 2), X(error_qubit), X(error_qubit),
       CX(0, 2), CX(0, 1), MeasureAll>>

\* cli_interface.simulate_correction: the circuit
cli_correction_circuit(initial_state, error_qubit) ==
  Prepare(initial_state)
  \o <<CX(0, 1), CX(0, 2), Barrier("Encode"),
       X(error_qubit), Barrier("Error"),
       X(error_qubit), Barrier("Correct"), MeasureAll>>

\* ------------------------------------------ BitFlipErrorCorrection
\* str(error_qubit) inside an f-string label
QubitName(e) ==
  CASE e = 0 -> "0" [] e = 1 -> "1" [] e = 2 -> "2"
    [] e = -1 -> "-1" [] e = 3 -> "3" [] OTHER -> "?"

\* encode(qc)
encode(qc) == qc \o <<CX(0, 1), CX(0, 2), Barrier("Encoded")>>

\* introduce_error(qc, error_qubit, error_probability): r is the value of
\* random.random() in units of 1/RandScale, rq that of random.randint(0, 2)
introduce_error(qc, error_qubit, error_probability, r, rq) ==
  IF r > error_probability
  THEN [qc |-> qc, error_qubit |-> None]
  ELSE LET e == IF error_qubit = None THEN rq ELSE error_qubit IN
       [qc |-> qc \o <<X(e), Barrier("Error@q" \o QubitName(e))>>,
        error_qubit |-> e]

correct_error_skip(qc, error_position) == qc

\* correct_error(qc, error_position)
correct_error(qc, error_position) ==
  IF error_position # None
  THEN qc \o <<X(error_position),
               Barrier("Correct@q" \o QubitName(error_position))>>
  ELSE qc

create_full_pipeline_corrects_requested(initial_state, error_qubit, r, rq) ==
  LET prep == CASE initial_state = "1" -> <<X(0)>>
                [] initial_state = "+" -> <<H(0)>>
                [] initial_state = "-" -> <<X(0), H(0)>>
                [] OTHER -> <<>>
      enc == encode(prep \o <<Barrier("Init")>>)
      err == introduce_error(enc, error_qubit, DefaultErrorProbability, r, rq)
      cor == IF err.error_qubit # None
             THEN correct_error(err.qc, error_qubit)
             ELSE err.qc
  IN cor \o <<Barrier("Final"), MeasureAll>>

\* create_full_pipeline(error_qubit)
create_full_pipeline(initial_state, error_qubit, r, rq) ==
  LET prep == CASE initial_state = "1" -> <<X(0)>>
                [] initial_state = "+" -> <<H(0)>>
                [] initial_state = "-" -> <<X(0), H(0)>>
                [] OTHER -> <<>>
      enc == encode(prep \o <<Barrier("Init")>>)
      err == introduce_error(enc, error_qubit, DefaultErrorProbability, r, rq)
      cor == IF err.error_qubit # None
             THEN correct_error(err.qc, err.error_qubit)
             ELSE err.qc
  IN cor \o <<Barrier("Final"), MeasureAll>>

success_count_only_000(c) == get(c, Str000)

\* run_pipeline: the success count of a superposition input
success_count_superposition(c) == get(c, Str000) + get(c, Str111)

\* run_pipeline: expected_state and success_rate from the counts
run_pipeline_result(initial_state, qc, c, shots) ==
  LET expected_state ==
        IF initial_state \in {"+", "-"} THEN Superposition
        ELSE IF initial_state \in {"0"} THEN Str000 ELSE Str111
      success_count ==
        IF expected_state # Superposition THEN get(c, expected_state)
        ELSE success_count_superposition(c)
  IN [status |-> "ok", circuit |-> qc, counts |-> c,
      expected_state |-> expected_state,
      success_rate |-> rate(success_count, shots),
      total_shots |-> shots]

\* automatic_error_correction.create_full_error_correction_circuit: the
\* block under apply_correction resets the qubits, rebuilds the measured
\* syndrome state and appends the 'Restore' and 'Correct' barriers; it
\* appends no gate that depends on the majority.
create_full_error_correction_circuit(initial_state, error_qubit, apply_correction) ==
  Prepare(initial_state) \o <<Barrier("Init")>>
  \o <<CX(0, 1), CX(0, 2), Barrier("Encode")>>
  \o (IF error_qubit # None
      THEN <<X(error_qubit), Barrier("Error@q")>> ELSE <<>>)
  \o <<MeasureInto("syndrome"), Barrier("Syndrome")>>
  \o (IF apply_correction
      THEN <<Reset(0), Reset(1), Reset(2)>>
           \o <<XIfSyndrome(0, 0), XIfSyndrome(1, 1), XIfSyndrome(2, 2)>>
           \o <<Barrier("Restore"), Barrier("Correct")>>
      ELSE <<>>)
  \o <<MeasureInto("final")>>

\* ------------------------------------------------------------- actions
Callers == {1, 2}

\* a caller that is in no call: every local unset
IdleFrame ==
  [pc |-> "idle", fn |-> "", bit_string |-> <<>>, initial_state |-> "",
   error_qubit |-> None, actual_error_qubit |-> None, shots |-> 0,
   qc |-> <<>>, filename |-> <<>>, count_0 |-> 0,
   count_1 |-> 0, majority_bit |-> "", counts |-> <<>>,
   result |-> [status |-> "none"]]

Init ==
  /\ op = "init"
  /\ args = <<>>
  /\ circuit = NoCircuit
  /\ counts = NoCounts
  /\ ret = <<>>
  /\ sim_calls = 0
  /\ files = <<>>
  /\ now = 0
  /\ deleted = {}
  /\ frames = [c \in Callers |-> IdleFrame]

CallMajorityVote ==
  \E s \in BitStrings :
    /\ op' = "majority_vote"
    /\ args' = [bit_string |-> s]
    /\ ret' = majority_vote(s)
    /\ circuit' = NoCircuit
    /\ counts' = NoCounts
    /\ sim_calls' = 0
    /\ UNCHANGED <<blob, frames>>

CallMajorityVoteCorrection ==
  \E s \in BitStrings :
    /\ op' = "majority_vote_correction"
    /\ args' = [bit_string |-> s]
    /\ ret' = majority_vote_correction(s)
    /\ circuit' = NoCircuit
    /\ counts' = NoCounts
    /\ sim_calls' = 0
    /\ UNCHANGED <<blob, frames>>

CallDetectError ==
  \E s \in BitStrings :
    /\ op' = "detect_error"
    /\ args' = [bit_string |-> s]
    /\ ret' = detect_error(s)
    /\ circuit' = NoCircuit
    /\ counts' = NoCounts
    /\ sim_calls' = 0
    /\ UNCHANGED <<blob, frames>>

\* majority_vote_detection.analyze_measurement_results
analyze_measurement_results(c) ==
  IF \E k \in DOMAIN c : majority_vote(k).status # "ok"
  THEN [status |-> "ValueError"]
  ELSE [status |-> "ok", total_shots |-> total(c),
        measurements |->
          [k \in DOMAIN c |->
             [count |-> c[k],
              percentage |-> rate(c[k], total(c)),
              majority_bit |-> majority_vote(k).majority_bit,
              error_detected |-> majority_vote(k).error_detected,
              error_position |-> majority_vote(k).error_position]]]

\* automatic_error_correction.analyze_correction_results
analyze_correction_results(counts_error, counts_corrected, initial_state) ==
  LET expected_state == IF initial_state = "0" THEN Str000 ELSE Str111 IN
  IF \E k \in DOMAIN counts_error : majority_vote_correction(k).status # "ok"
  THEN [status |-> "ValueError"]
  ELSE [status |-> "ok", expected_state |-> expected_state,
        error_analysis |->
          [k \in DOMAIN counts_error |->
             [count |-> counts_error[k],
              corrected_to |-> majority_vote_correction(k).corrected_string,
              error_position |-> majority_vote_correction(k).error_position,
              matches_expected |->
                majority_vote_correction(k).corrected_string = expected_state]],
        success_rate |->
          rate(get(counts_corrected, expected_state), total(counts_corrected)),
        counts_error |-> counts_error,
        counts_corrected |-> counts_corrected]

\* random.randint(0, 2): the values it can return where the handler calls
\* it, a placeholder where it does not
RandintDraws(called) == IF called THEN Qubits ELSE {0}

\* the error-qubit arguments a caller of a builder passes
ErrorQubitInputs == Qubits \cup {None, -1, 3}

\* One test case of demonstrate_majority_vote: build, simulate, analyse.
DemonstrateMajorityVote ==
  \E initial_state \in {"0", "1"}, error_qubit \in ErrorQubitInputs,
     shots \in 1..MaxShots :
    LET qc == demonstrate_circuit(initial_state, error_qubit) IN
    /\ op' = "demonstrate_majority_vote"
    /\ args' = [initial_state |-> initial_state, error_qubit |-> error_qubit,
                shots |-> shots]
    /\ UNCHANGED <<blob, frames>>
    /\ IF Raises(qc)
       THEN /\ circuit' = NoCircuit
            /\ counts' = NoCounts
            /\ sim_calls' = 0
            /\ ret' = CircuitError
       ELSE \E c \in Simulate(qc, shots) :
              /\ circuit' = qc
              /\ counts' = c
              /\ sim_calls' = 1
              /\ ret' = analyze_measurement_results(c)

\* One scenario of demonstrate_bit_flip_errors: create_circuit_with_error,
\* simulate_circuit.
DemonstrateBitFlipError ==
  \E initial_state \in {"0", "1"}, error_qubit \in ErrorQubitInputs,
     shots \in 1..MaxShots :
    LET qc == create_circuit_with_error(initial_state, error_qubit) IN
    /\ op' = "create_circuit_with_error"
    /\ args' = [initial_state |-> initial_state, error_qubit |-> error_qubit,
                shots |-> shots]
    /\ UNCHANGED <<blob, frames>>
    /\ IF Raises(qc)
       THEN /\ circuit' = NoCircuit
            /\ counts' = NoCounts
            /\ sim_calls' = 0
            /\ ret' = CircuitError
       ELSE \E c \in Simulate(qc, shots) :
              /\ circuit' = qc
              /\ counts' = c
              /\ sim_calls' = 1
              /\ ret' = [status |-> "ok", counts |-> c]

\* create_error_correction_circuit_v2, simulate_circuit on both circuits,
\* analyze_correction_results.
AutomaticCorrection ==
  \E initial_state \in {"0", "1"}, error_qubit \in ErrorQubitInputs,
     shots \in 1..MaxShots :
    LET qc_error == v2_error(initial_state, error_qubit)
        qc_corrected == v2_corrected(initial_state, error_qubit) IN
    /\ op' = "create_error_correction_circuit_v2"
    /\ args' = [initial_state |-> initial_state, error_qubit |-> error_qubit,
                shots |-> shots]
    /\ UNCHANGED <<blob, frames>>
    /\ IF Raises(qc_error) \/ Raises(qc_corrected)
       THEN /\ circuit' = NoCircuit
            /\ counts' = NoCounts
            /\ sim_calls' = 0
            /\ ret' = CircuitError
       ELSE \E ce \in Simulate(qc_error, shots),
               cc \in Simulate(qc_corrected, shots) :
              /\ circuit' = [error |-> qc_error, corrected |-> qc_corrected]
              /\ counts' = [error |-> ce, corrected |-> cc]
              /\ sim_calls' = 2
              /\ ret' = analyze_correction_results(ce, cc, initial_state)

\* create_full_error_correction_circuit followed by simulate_circuit(qc,
\* shots) of the same module
CallCreateFullErrorCorrectionCircuit ==
  \E initial_state \in {"0", "1"}, error_qubit \in Qubits \cup {None},
     apply_correction \in BOOLEAN, shots \in 1..MaxShots :
    LET qc == create_full_error_correction_circuit(initial_state, error_qubit,
                                                   apply_correction) IN
    \E c \in Tallies(RegisterOutcomes(qc), shots) :
      /\ op' = "create_full_error_correction_circuit"
      /\ args' = [initial_state |-> initial_state, error_qubit |-> error_qubit,
                  apply_correction |-> apply_correction, shots |-> shots]
      /\ circuit' = qc
      /\ counts' = c
      /\ sim_calls' = 1
      /\ ret' = [status |-> "ok", counts |-> c]
      /\ UNCHANGED <<blob, frames>>

\* POST /encode
FlaskEncode ==
  \E initial_state \in InitialStates :
    LET qc == flask_encode_circuit(initial_state) IN
    \E c \in Simulate(qc, FlaskShots) :
      /\ op' = "flask_encode"
      /\ args' = [state |-> initial_state]
      /\ circuit' = qc
      /\ counts' = c
      /\ sim_calls' = 1
      /\ ret' = [http |-> 200, success |-> TRUE,
                 initial_state |-> initial_state,
                 encoded_state |-> IF initial_state = "0" THEN Str000 ELSE Str111,
                 measurements |-> c, shots |-> FlaskShots]
      /\ UNCHANGED <<blob, frames>>

\* the error_qubit values of a request body: an index, one past either end,
\* or null
FlaskQubitInputs == Qubits \cup {3, -1, None}

\* data.get('error_qubit', 1) of a body that may set random_error: with
\* random_error the value is overwritten unread, so the default and one
\* invalid value stand for all
RequestedQubits(use_random_error) ==
  IF use_random_error THEN {1, 3} ELSE FlaskQubitInputs

\* jsonify({'success': False, 'error': 'Invalid qubit'}), 400
InvalidQubit == [http |-> 400, success |-> FALSE, error |-> "Invalid qubit"]
\* the names bound at module level in flask_backend.py: the route functions
ModuleGlobals ==
  {"home", "api_docs", "encode", "introduce_error", "introduce_random_error",
   "correct", "pipeline", "statevector_analysis", "health", "allowed_file",
   "upload_file", "download_file", "list_files", "delete_file",
   "visualize_circuit", "add_error", "correct_error"}

\* flask_backend.introduce_error (POST /error): the circuit
flask_error_circuit(initial_state, error_qubit) ==
  Prepare(initial_state)
  \o <<CX(0, 1), CX(0, 2), Barrier(""), X(error_qubit), Barrier(""), MeasureAll>>

\* flask_backend.introduce_error (POST /error): the 200 response
flask_error_response(initial_state, error_qubit, c) ==
  [http |-> 200, success |-> TRUE, initial_state |-> initial_state,
   error_qubit |-> error_qubit, measurements |-> c, shots |-> FlaskShots]

\* the body of flask_backend.introduce_error for one request
ErrorHandler(initial_state, error_qubit) ==
  IF error_qubit \notin {0, 1, 2}
  THEN /\ circuit' = NoCircuit
       /\ counts' = NoCounts
       /\ sim_calls' = 0
       /\ ret' = InvalidQubit
  ELSE LET qc == flask_error_circuit(initial_state, error_qubit) IN
       \E c \in Simulate(qc, FlaskShots) :
         /\ circuit' = qc
         /\ counts' = c
         /\ sim_calls' = 1
         /\ ret' = flask_error_response(initial_state, error_qubit, c)

\* POST /error
FlaskError ==
  \E initial_state \in InitialStates, error_qubit \in FlaskQubitInputs :
    /\ op' = "flask_error"
    /\ args' = [state |-> initial_state, error_qubit |-> error_qubit]
    /\ ErrorHandler(initial_state, error_qubit)
    /\ UNCHANGED <<blob, frames>>

\* POST /add_error: return error().  The name error is looked up among the
\* module's globals when the request arrives; an unbound name raises
\* NameError outside any try, which Flask answers with 500.
FlaskAddError ==
  \E initial_state \in InitialStates, error_qubit \in FlaskQubitInputs :
    /\ op' = "flask_add_error"
    /\ args' = [state |-> initial_state, error_qubit |-> error_qubit]
    /\ IF "error" \in ModuleGlobals
       THEN ErrorHandler(initial_state, error_qubit)
       ELSE /\ circuit' = NoCircuit
            /\ counts' = NoCounts
            /\ sim_calls' = 0
            /\ ret' = [http |-> 500, error |-> "NameError"]
    /\ UNCHANGED <<blob, frames>>

\* POST /correct
FlaskCorrect ==
  \E initial_state \in InitialStates, error_qubit \in FlaskQubitInputs :
    /\ op' = "flask_correct"
    /\ args' = [state |-> initial_state, error_qubit |-> error_qubit]
    /\ UNCHANGED <<blob, frames>>
    /\ IF error_qubit \notin {0, 1, 2}
       THEN /\ circuit' = NoCircuit
            /\ counts' = NoCounts
            /\ sim_calls' = 0
            /\ ret' = InvalidQubit
       ELSE LET qc == flask_correct_circuit(initial_state, error_qubit) IN
            \E c \in Simulate(qc, FlaskShots) :
              LET expected == IF initial_state = "0" THEN Str000 ELSE Str111 IN
              /\ circuit' = qc
              /\ counts' = c
              /\ sim_calls' = 1
              /\ ret' = [http |-> 200, success |-> TRUE,
                         initial_state |-> initial_state,
                         error_qubit |-> error_qubit,
                         expected_state |-> expected,
                         success_rate |-> rate(get(c, expected), FlaskShots),
                         measurements |-> c, shots |-> FlaskShots]

\* POST /pipeline; rq is the value random.randint(0, 2) returns
FlaskPipeline ==
  \E initial_state \in InitialStates, shots \in 1..MaxShots,
     use_random_error \in BOOLEAN :
  \E requested \in RequestedQubits(use_random_error),
     rq \in RandintDraws(use_random_error) :
    LET error_qubit == IF use_random_error THEN rq ELSE requested IN
    /\ op' = "flask_pipeline"
    /\ args' = [state |-> initial_state, error_qubit |-> requested,
                shots |-> shots, random_error |-> use_random_error]
    /\ UNCHANGED <<blob, frames>>
    /\ IF ~use_random_error /\ error_qubit \notin {0, 1, 2}
       THEN /\ circuit' = NoCircuit
            /\ counts' = NoCounts
            /\ sim_calls' = 0
            /\ ret' = InvalidQubit
       ELSE LET qc == flask_pipeline_circuit(initial_state, error_qubit) IN
            \E c \in Simulate(qc, shots) :
              LET expected == IF initial_state = "0" THEN Str000 ELSE Str111
                  success_rate == rate(get(c, expected), shots) IN
              /\ circuit' = qc
              /\ counts' = c
              /\ sim_calls' = 1
              /\ ret' = [http |-> 200, success |-> TRUE,
                         pipeline |->
                           [initial_state |-> initial_state,
                            error_qubit |-> error_qubit,
                            randomly_selected |-> use_random_error,
                            expected_state |-> expected,
                            success_rate |-> success_rate,
                            corrected |-> success_rate >= 99],
                         measurements |-> c, shots |-> shots]

\* Statevector(qc): the amplitudes after the gates of a circuit that
\* measures nothing
RECURSIVE Evolve(_, _, _)
Evolve(circ, i, amp) ==
  IF i > Len(circ) THEN amp
  ELSE LET gate == circ[i] IN
    CASE gate.g = "x" -> Evolve(circ, i + 1, ApplyX(amp, gate.q))
      [] gate.g = "cx" -> Evolve(circ, i + 1, ApplyCX(amp, gate.q, gate.t))
      [] gate.g = "h" -> Evolve(circ, i + 1, ApplyH(amp, gate.q))
      [] OTHER -> Evolve(circ, i + 1, amp)

\* [abs(x)**2 for x in sv.data], by basis-state label
probabilities(circ) ==
  LET amp == Evolve(circ, 1, InitAmp) IN
  [k \in [1..3 -> {"0", "1"}] |->
     LET b == [q \in Qubits |-> IF k[3 - q] = "1" THEN 1 ELSE 0]
     IN amp[b] * amp[b]]

statevector_circuits_uncorrected(initial_state, error_qubit) ==
  [initial |-> Prepare(initial_state),
   encoded |-> Prepare(initial_state) \o <<CX(0, 1), CX(0, 2)>>,
   with_error |-> Prepare(initial_state) \o <<CX(0, 1), CX(0, 2), X(error_qubit)>>,
   corrected |-> Prepare(initial_state)
                 \o <<CX(0, 1), CX(0, 2), X(error_qubit)>>]

\* flask_backend.statevector_analysis: the circuits qc1..qc4
statevector_circuits(initial_state, error_qubit) ==
  [initial |-> Prepare(initial_state),
   encoded |-> Prepare(initial_state) \o <<CX(0, 1), CX(0, 2)>>,
   with_error |-> Prepare(initial_state) \o <<CX(0, 1), CX(0, 2), X(error_qubit)>>,
   corrected |-> Prepare(initial_state)
                 \o <<CX(0, 1), CX(0, 2), X(error_qubit), X(error_qubit)>>]

\* POST /statevector; rq is the value random.randint(0, 2) returns
FlaskStatevector ==
  \E initial_state \in InitialStates, use_random_error \in BOOLEAN :
  \E requested \in RequestedQubits(use_random_error),
     rq \in RandintDraws(use_random_error) :
    LET error_qubit == IF use_random_error THEN rq ELSE requested IN
    /\ op' = "flask_statevector"
    /\ args' = [state |-> initial_state, error_qubit |-> requested,
                random_error |-> use_random_error]
    /\ counts' = NoCounts
    /\ sim_calls' = 0
    /\ UNCHANGED <<blob, frames>>
    /\ IF ~use_random_error /\ error_qubit \notin {0, 1, 2}
       THEN /\ circuit' = NoCircuit
            /\ ret' = InvalidQubit
       ELSE LET qcs == statevector_circuits(initial_state, error_qubit) IN
            /\ circuit' = qcs
            /\ ret' = [http |-> 200, success |-> TRUE,
                       error_qubit |-> error_qubit,
                       randomly_selected |-> use_random_error,
                       stages |->
                         [initial |-> probabilities(qcs.initial),
                          encoded |-> probabilities(qcs.encoded),
                          with_error |-> probabilities(qcs.with_error),
                          corrected |-> probabilities(qcs.corrected)]]

\* cli_interface.simulate_correction; result is list(counts.keys())[0]
CliSimulateCorrection ==
  \E initial_state \in {"0", "1"}, error_qubit \in Qubits :
    LET qc == cli_correction_circuit(initial_state, error_qubit) IN
    \E c \in Simulate(qc, CliShots) :
      \E result \in DOMAIN c :
        LET expected == IF initial_state = "0" THEN Str000 ELSE Str111 IN
        /\ op' = "cli_simulate_correction"
        /\ args' = [initial_state |-> initial_state, error_qubit |-> error_qubit]
        /\ circuit' = qc
        /\ counts' = c
        /\ sim_calls' = 1
        /\ ret' = [status |-> "ok", expected |-> expected, result |-> result,
                   corrected |-> result = expected]
        /\ UNCHANGED <<blob, frames>>

CliPipelineShots == 1000

\* cli_interface.run_full_pipeline: the circuit
cli_full_pipeline_circuit(initial_state, error_qubit) ==
  Prepare(initial_state)
  \o <<Barrier("Init"), CX(0, 1), CX(0, 2), Barrier("Encode"),
       X(error_qubit), Barrier("Error"),
       X(error_qubit), Barrier("Correct"), MeasureAll>>

\* cli_interface.run_full_pipeline (the pipeline command; argparse admits
\* --state 0|1 and --qubit 0|1|2)
CliRunFullPipeline ==
  \E initial_state \in {"0", "1"}, error_qubit \in Qubits :
    LET qc == cli_full_pipeline_circuit(initial_state, error_qubit) IN
    \E c \in Simulate(qc, CliPipelineShots) :
      LET expected == IF initial_state = "0" THEN Str000 ELSE Str111 IN
      /\ op' = "cli_run_full_pipeline"
      /\ args' = [initial_state |-> initial_state, error_qubit |-> error_qubit]
      /\ circuit' = qc
      /\ counts' = c
      /\ sim_calls' = 1
      /\ ret' = [status |-> "ok",
                 success_rate |-> rate(get(c, expected), CliPipelineShots)]
      /\ UNCHANGED <<blob, frames>>

\* bit_flip_error_simulation.create_encoding_circuit
create_encoding_circuit == <<CX(0, 1), CX(0, 2)>>

introduce_bit_flip_error_unchecked(qc, qubit_index) ==
  [status |-> "ok", msg |-> "",
   qc |-> qc \o <<Barrier(""), X(qubit_index), Barrier("")>>]

\* bit_flip_error_simulation.introduce_bit_flip_error(qc, qubit_index); qc in
\* the result is the caller's circuit object after the call
introduce_bit_flip_error(qc, qubit_index) ==
  IF qubit_index \notin {0, 1, 2}
  THEN [status |-> "ValueError", msg |-> "Qubit index must be 0, 1, or 2",
        qc |-> qc]
  ELSE [status |-> "ok", msg |-> "",
        qc |-> qc \o <<Barrier(""), X(qubit_index), Barrier("")>>]

\* introduce_bit_flip_error called on an encoding circuit, as
\* test_single_error_function does
CallIntroduceBitFlipError ==
  \E qc \in {create_encoding_circuit, <<X(0)>> \o create_encoding_circuit},
     qubit_index \in ErrorQubitInputs :
    LET r == introduce_bit_flip_error(qc, qubit_index) IN
    /\ op' = "introduce_bit_flip_error"
    /\ args' = [qc |-> qc, qubit_index |-> qubit_index]
    /\ circuit' = r.qc
    /\ counts' = NoCounts
    /\ sim_calls' = 0
    /\ ret' = [status |-> r.status, msg |-> r.msg]
    /\ UNCHANGED <<blob, frames>>

\* ---------------------------------------------- a failing simulator
\* the exception simulator.run(...).result() raises when the backend fails
SimulatorError == [status |-> "SimulatorError"]

\* what one simulator.run(...).result().get_counts() hands back
SimulatorRun(qc, shots, failed) ==
  IF failed THEN {NoCounts} ELSE Simulate(qc, shots)

\* automatic_error_correction.simulate_circuit(qc, shots): no try/except
simulate_circuit(c, failed) ==
  IF failed THEN [ret |-> SimulatorError, sim_calls |-> 1]
  ELSE [ret |-> [status |-> "ok", counts |-> c], sim_calls |-> 1]

run_pipeline_retries(initial_state, qc, c, shots, failed) ==
  [ret |-> run_pipeline_result(initial_state, qc, c, shots),
   sim_calls |-> IF failed THEN 2 ELSE 1]

\* BitFlipErrorCorrection.run_pipeline from the simulator call on: no
\* try/except, one simulator.run
run_pipeline(initial_state, qc, c, shots, failed) ==
  IF failed THEN [ret |-> SimulatorError, sim_calls |-> 1]
  ELSE [ret |-> run_pipeline_result(initial_state, qc, c, shots),
        sim_calls |-> 1]

\* simulate_circuit on a circuit of create_error_correction_circuit_v2
CallSimulateCircuit ==
  \E initial_state \in {"0", "1"}, error_qubit \in {None, 1},
     corrected \in BOOLEAN, shots \in 1..MaxShots, failed \in BOOLEAN :
    LET qc == IF corrected THEN v2_corrected(initial_state, error_qubit)
              ELSE v2_error(initial_state, error_qubit) IN
    \E c \in SimulatorRun(qc, shots, failed) :
      LET r == simulate_circuit(c, failed) IN
      /\ op' = "simulate_circuit"
      /\ args' = [qc |-> qc, shots |-> shots, simulator_fails |-> failed]
      /\ circuit' = qc
      /\ counts' = c
      /\ sim_calls' = r.sim_calls
      /\ ret' = r.ret
      /\ UNCHANGED <<blob, frames>>

\* BitFlipErrorCorrection(initial_state).run_pipeline(shots, error_qubit)
RunPipeline ==
  \E initial_state \in InitialStates, error_qubit \in ErrorQubitInputs,
     shots \in 1..MaxShots, r \in 0..(RandScale - 1), failed \in BOOLEAN :
  \E rq \in RandintDraws(error_qubit = None) :
    LET qc == create_full_pipeline(initial_state, error_qubit, r, rq) IN
    /\ op' = "run_pipeline"
    /\ args' = [initial_state |-> initial_state, error_qubit |-> error_qubit,
                shots |-> shots, simulator_fails |-> failed]
    /\ UNCHANGED <<blob, frames>>
    /\ IF Raises(qc)
       THEN /\ circuit' = NoCircuit
            /\ counts' = NoCounts
            /\ sim_calls' = 0
            /\ ret' = CircuitError
       ELSE \E c \in SimulatorRun(qc, shots, failed) :
              LET out == run_pipeline(initial_state, qc, c, shots, failed) IN
              /\ circuit' = qc
              /\ counts' = c
              /\ sim_calls' = out.sim_calls
              /\ ret' = out.ret

Next ==
  \/ CallMajorityVote
  \/ CallMajorityVoteCorrection
  \/ CallDetectError
  \/ DemonstrateMajorityVote
  \/ DemonstrateBitFlipError
  \/ AutomaticCorrection
  \/ CallCreateFullErrorCorrectionCircuit
  \/ FlaskEncode
  \/ FlaskError
  \/ FlaskAddError
  \/ FlaskCorrect
  \/ FlaskPipeline
  \/ FlaskStatevector
  \/ CliSimulateCorrection
  \/ CliRunFullPipeline
  \/ CallIntroduceBitFlipError
  \/ CallSimulateCircuit
  \/ RunPipeline

Spec == Init /\ [][Next]_vars

\* ------------------------------------------------ the local blob API
\* A file name is a record: the directory part a client may send, the stem,
\* the timestamp the upload handler inserts (None where there is none) and
\* the extension.  A file's content is a sequence of bytes.
MaxTime == 2

ALLOWED_EXTENSIONS == {"txt", "json", "qasm", "py", "png", "jpg", "jpeg", "pdf"}

FileName(dirs, stem, stamp, ext) ==
  [dirs |-> dirs, stem |-> stem, stamp |-> stamp, ext |-> ext]

\* the filenames of the uploaded parts: 'a.txt', '../a.txt', 'b.exe', ''
UploadNames ==
  {FileName("", "a", None, "txt"), FileName("../", "a", None, "txt"),
   FileName("", "b", None, "exe"), FileName("", "", None, "")}

Contents == {<<1>>, <<2, 2>>}

\* allowed_file(filename)
allowed_file(n) == n.ext # "" /\ n.ext \in ALLOWED_EXTENSIONS

\* werkzeug.utils.secure_filename: the directory part is dropped
secure_filename(n) == [n EXCEPT !.dirs = ""]

\* f"{name}_{timestamp}{ext}" with timestamp = now, to the second
unique_filename(n, timestamp) == FileName("", n.stem, timestamp, n.ext)

\* the <filename> of a /download or /delete URL: every name an upload can
\* return, and 'a.txt', which none returns
UrlNames ==
  {unique_filename(FileName("", "a", None, "txt"), t) : t \in 0..MaxTime}
  \cup {FileName("", "a", None, "txt")}

FileNotFound == [http |-> 404, success |-> FALSE, error |-> "File not found"]

\* POST /upload
FlaskUpload ==
  \E present \in BOOLEAN, n \in UploadNames, content \in Contents :
    /\ op' = "upload"
    /\ args' = [present |-> present, filename |-> n, content |-> content]
    /\ UNCHANGED <<circuit, counts, sim_calls, now, deleted, frames>>
    /\ IF ~present
       THEN /\ ret' = [http |-> 400, success |-> FALSE,
                       error |-> "No file part in request"]
            /\ UNCHANGED files
       ELSE IF n = FileName("", "", None, "")
       THEN /\ ret' = [http |-> 400, success |-> FALSE,
                       error |-> "No file selected"]
            /\ UNCHANGED files
       ELSE IF ~allowed_file(n)
       THEN /\ ret' = [http |-> 400, success |-> FALSE,
                       error |-> "File type not allowed"]
            /\ UNCHANGED files
       ELSE LET stored == unique_filename(secure_filename(n), now) IN
            /\ files' = [f \in DOMAIN files \cup {stored} |->
                           IF f = stored THEN content ELSE files[f]]
            /\ ret' = [http |-> 200, success |-> TRUE, filename |-> stored,
                       original_filename |-> n, size |-> Len(content)]

\* GET /download/<filename>
FlaskDownload ==
  \E name \in UrlNames :
    LET filename == secure_filename(name) IN
    /\ op' = "download"
    /\ args' = [filename |-> name]
    /\ UNCHANGED <<circuit, counts, sim_calls, files, now, deleted, frames>>
    /\ IF filename \notin DOMAIN files
       THEN ret' = FileNotFound
       ELSE ret' = [http |-> 200, download_name |-> filename,
                    content |-> files[filename]]

\* files.sort(key=created, reverse=True): newest first
RECURSIVE NewestFirst(_)
NewestFirst(S) ==
  IF S = {} THEN <<>>
  ELSE LET f == CHOOSE f \in S : \A g \in S : g.stamp <= f.stamp IN
       <<f>> \o NewestFirst(S \ {f})

\* GET /files
FlaskFiles ==
  LET listed == NewestFirst(DOMAIN files) IN
  /\ op' = "files"
  /\ args' = <<>>
  /\ ret' = [http |-> 200, success |-> TRUE, count |-> Len(listed),
             files |-> [i \in 1..Len(listed) |->
                          [filename |-> listed[i],
                           size |-> Len(files[listed[i]])]]]
  /\ UNCHANGED <<circuit, counts, sim_calls, files, now, deleted, frames>>

\* DELETE /delete/<filename>
FlaskDelete ==
  \E name \in UrlNames :
    LET filename == secure_filename(name) IN
    /\ op' = "delete"
    /\ args' = [filename |-> name]
    /\ UNCHANGED <<circuit, counts, sim_calls, now, frames>>
    /\ IF filename \notin DOMAIN files
       THEN /\ ret' = FileNotFound
            /\ UNCHANGED <<files, deleted>>
       ELSE /\ files' = [f \in DOMAIN files \ {filename} |-> files[f]]
            /\ deleted' = deleted \cup {filename}
            /\ ret' = [http |-> 200, success |-> TRUE,
                       message |-> "File deleted successfully",
                       filename |-> filename]

\* a second passes between two requests
Tick ==
  /\ now < MaxTime
  /\ now' = now + 1
  /\ op' = "tick"
  /\ args' = <<>>
  /\ ret' = <<>>
  /\ UNCHANGED <<circuit, counts, sim_calls, files, deleted, frames>>

NextBlob ==
  \/ FlaskUpload
  \/ FlaskDownload
  \/ FlaskFiles
  \/ FlaskDelete
  \/ Tick

SpecBlob == Init /\ [][NextBlob]_vars

\* ------------------------------------------- two concurrent callers
\* Each caller runs one call of majority_vote, create_circuit_with_error or
\* run_pipeline (on a pipeline object of its own) a statement at a time;
\* the statements of the two interleave freely.  Every name the functions
\* assign is a local of the call, or an attribute of the caller's own
\* object, so it lives in the caller's frame.
Binary3 == [1..3 -> {"0", "1"}]
ConcStrings == Binary3 \cup {<<"0", "1">>}

assign_global(fr, c, name, value) ==
  [k \in DOMAIN fr |-> [fr[k] EXCEPT ![name] = value]]

\* name = value, executed by caller c: binds a local of c's call
assign(fr, c, name, value) == [fr EXCEPT ![c][name] = value]

\* move caller c to its next statement
goto(fr, c, pc) == [fr EXCEPT ![c].pc = pc]

quantum == <<op, args, circuit, counts, ret, sim_calls>>

\* majority_vote(bit_string) is called
BeginMajorityVote ==
  \E c \in Callers, s \in ConcStrings :
    /\ frames[c].pc = "idle"
    /\ frames' = [frames EXCEPT ![c] =
         [IdleFrame EXCEPT !.pc = "mv_check", !.fn = "majority_vote",
                           !.bit_string = s]]
    /\ UNCHANGED <<quantum, blob>>

\* if len(bit_string) != 3: raise ValueError
MvCheck ==
  \E c \in Callers :
    /\ frames[c].pc = "mv_check"
    /\ frames' =
         IF Len(frames[c].bit_string) # 3
         THEN goto(assign(frames, c, "result",
                          [status |-> "ValueError",
                           msg |-> "Bit string must be exactly 3 bits"]),
                   c, "done")
         ELSE goto(frames, c, "mv_count_0")
    /\ UNCHANGED <<quantum, blob>>

\* count_0 = bit_string.count('0')
MvCount0 ==
  \E c \in Callers :
    /\ frames[c].pc = "mv_count_0"
    /\ frames' = goto(assign(frames, c, "count_0",
                             count(frames[c].bit_string, "0")),
                      c, "mv_count_1")
    /\ UNCHANGED <<quantum, blob>>

\* count_1 = bit_string.count('1')
MvCount1 ==
  \E c \in Callers :
    /\ frames[c].pc = "mv_count_1"
    /\ frames' = goto(assign(frames, c, "count_1",
                             count(frames[c].bit_string, "1")),
                      c, "mv_majority")
    /\ UNCHANGED <<quantum, blob>>

\* majority_bit = '0' if count_0 > count_1 else '1'
MvMajority ==
  \E c \in Callers :
    /\ frames[c].pc = "mv_majority"
    /\ frames' = goto(assign(frames, c, "majority_bit",
                             IF frames[c].count_0 > frames[c].count_1
                             THEN "0" ELSE "1"),
                      c, "mv_detect")
    /\ UNCHANGED <<quantum, blob>>

\* error_detected, error_position and the return statement
MvDetect ==
  \E c \in Callers :
    LET f == frames[c]
        minority_bit == IF f.majority_bit = "0" THEN "1" ELSE "0"
        error_detected == ~(f.count_0 = 3 \/ f.count_1 = 3) IN
    /\ f.pc = "mv_detect"
    /\ frames' = goto(assign(frames, c, "result",
         IF ~error_detected
         THEN [status |-> "ok", majority_bit |-> f.majority_bit,
               error_detected |-> FALSE, error_position |-> None]
         ELSE IF index(f.bit_string, minority_bit) = None
         THEN [status |-> "ValueError", msg |-> "substring not found"]
         ELSE [status |-> "ok", majority_bit |-> f.majority_bit,
               error_detected |-> TRUE,
               error_position |-> index(f.bit_string, minority_bit)]),
         c, "done")
    /\ UNCHANGED <<quantum, blob>>

\* create_circuit_with_error(initial_state, error_qubit) is called;
\* qc = QuantumCircuit(3, 3)
BeginBuilder ==
  \E c \in Callers, initial_state \in {"0", "1"},
     error_qubit \in Qubits \cup {None} :
    /\ frames[c].pc = "idle"
    /\ frames' = [frames EXCEPT ![c] =
         [IdleFrame EXCEPT !.pc = "b_prepare",
                           !.fn = "create_circuit_with_error",
                           !.initial_state = initial_state,
                           !.error_qubit = error_qubit]]
    /\ UNCHANGED <<quantum, blob>>

\* if initial_state == '1': qc.x(0); qc.barrier(label='Init')
BuildPrepare ==
  \E c \in Callers :
    /\ frames[c].pc = "b_prepare"
    /\ frames' = goto(assign(frames, c, "qc",
                             frames[c].qc \o Prepare(frames[c].initial_state)
                             \o <<Barrier("Init")>>),
                      c, "b_encode")
    /\ UNCHANGED <<quantum, blob>>

\* qc.cx(0, 1); qc.cx(0, 2)
BuildEncode ==
  \E c \in Callers :
    /\ frames[c].pc = "b_encode"
    /\ frames' = goto(assign(frames, c, "qc",
                             frames[c].qc \o <<CX(0, 1), CX(0, 2)>>),
                      c, "b_error")
    /\ UNCHANGED <<quantum, blob>>

\* if error_qubit is not None: qc.barrier(label='Error'); qc.x(error_qubit)
BuildError ==
  \E c \in Callers :
    /\ frames[c].pc = "b_error"
    /\ frames' = goto(assign(frames, c, "qc",
                             frames[c].qc
                             \o (IF frames[c].error_qubit # None
                                 THEN <<Barrier("Error"),
                                        X(frames[c].error_qubit)>>
                                 ELSE <<>>)),
                      c, "b_measure")
    /\ UNCHANGED <<quantum, blob>>

\* qc.barrier(label='Measure'); qc.measure(...); return qc
BuildMeasure ==
  \E c \in Callers :
    /\ frames[c].pc = "b_measure"
    /\ frames' = goto(assign(frames, c, "result",
                             [status |-> "ok",
                              qc |-> frames[c].qc
                                     \o <<Barrier("Measure"), MeasureAll>>]),
                      c, "done")
    /\ UNCHANGED <<quantum, blob>>

\* BitFlipErrorCorrection(initial_state).run_pipeline(shots, error_qubit) is
\* called on the caller's own object; create_full_pipeline up to the Init
\* barrier
BeginRunPipeline ==
  \E c \in Callers, initial_state \in {"0", "1", "+"},
     error_qubit \in {None, 1} :
    /\ frames[c].pc = "idle"
    /\ frames' = [frames EXCEPT ![c] =
         [IdleFrame EXCEPT
            !.pc = "p_encode", !.fn = "run_pipeline",
            !.initial_state = initial_state, !.error_qubit = error_qubit,
            !.shots = 1,
            !.qc = (CASE initial_state = "1" -> <<X(0)>>
                      [] initial_state = "+" -> <<H(0)>>
                      [] initial_state = "-" -> <<X(0), H(0)>>
                      [] OTHER -> <<>>) \o <<Barrier("Init")>>]]
    /\ UNCHANGED <<quantum, blob>>

\* qc = self.encode(qc)
PipeEncode ==
  \E c \in Callers :
    /\ frames[c].pc = "p_encode"
    /\ frames' = goto(assign(frames, c, "qc", encode(frames[c].qc)),
                      c, "p_error")
    /\ UNCHANGED <<quantum, blob>>

\* qc, actual_error_qubit = self.introduce_error(qc, error_qubit)
PipeError ==
  \E c \in Callers, r \in 0..(RandScale - 1) :
  \E rq \in RandintDraws(frames[c].error_qubit = None) :
    LET err == introduce_error(frames[c].qc, frames[c].error_qubit,
                               DefaultErrorProbability, r, rq) IN
    /\ frames[c].pc = "p_error"
    /\ frames' = goto(assign(assign(frames, c, "qc", err.qc),
                             c, "actual_error_qubit", err.error_qubit),
                      c, "p_correct")
    /\ UNCHANGED <<quantum, blob>>

\* if actual_error_qubit is not None: qc = self.correct_error(...); the
\* final barrier and measurement
PipeCorrect ==
  \E c \in Callers :
    LET f == frames[c] IN
    /\ f.pc = "p_correct"
    /\ frames' = goto(assign(frames, c, "qc",
                             (IF f.actual_error_qubit # None
                              THEN correct_error(f.qc, f.actual_error_qubit)
                              ELSE f.qc)
                             \o <<Barrier("Final"), MeasureAll>>),
                      c, "p_simulate")
    /\ UNCHANGED <<quantum, blob>>

\* counts = self.simulator.run(...).result().get_counts(qc)
PipeSimulate ==
  \E c \in Callers :
  \E cn \in Simulate(frames[c].qc, frames[c].shots) :
    /\ frames[c].pc = "p_simulate"
    /\ frames' = goto(assign(frames, c, "counts", cn), c, "p_result")
    /\ UNCHANGED <<quantum, blob>>

\* expected_state, success_rate and the returned dict
PipeResult ==
  \E c \in Callers :
    LET f == frames[c] IN
    /\ f.pc = "p_result"
    /\ frames' = goto(assign(frames, c, "result",
                             run_pipeline_result(f.initial_state, f.qc,
                                                 f.counts, f.shots)),
                      c, "done")
    /\ UNCHANGED <<quantum, blob>>

\* the caller takes the result
Return ==
  \E c \in Callers :
    /\ frames[c].pc = "done"
    /\ frames' = [frames EXCEPT ![c] = IdleFrame]
    /\ UNCHANGED <<quantum, blob>>

NextConc ==
  \/ BeginMajorityVote
  \/ MvCheck
  \/ MvCount0
  \/ MvCount1
  \/ MvMajority
  \/ MvDetect
  \/ BeginBuilder
  \/ BuildPrepare
  \/ BuildEncode
  \/ BuildError
  \/ BuildMeasure
  \/ BeginRunPipeline
  \/ PipeEncode
  \/ PipeError
  \/ PipeCorrect
  \/ PipeSimulate
  \/ PipeResult
  \/ Return

SpecConc == Init /\ [][NextConc]_vars

\* ------------------------------------------- two concurrent requests
\* The server handles requests in threads: a /delete or /download request
\* runs its existence check and its file operation as two steps, and
\* another request can run between them.
OSError == [http |-> 500, success |-> FALSE,
            error |-> "No such file or directory"]

\* DELETE /delete/<filename> arrives; filename = secure_filename(filename)
BeginDelete ==
  \E c \in Callers, name \in UrlNames :
    /\ frames[c].pc = "idle"
    /\ frames' = [frames EXCEPT ![c] =
         [IdleFrame EXCEPT !.pc = "delete_exists", !.fn = "delete_file",
                           !.filename = secure_filename(name)]]
    /\ UNCHANGED <<quantum, blob>>

\* if not os.path.exists(filepath): return 404
DeleteExists ==
  \E c \in Callers :
    /\ frames[c].pc = "delete_exists"
    /\ frames' = IF frames[c].filename \notin DOMAIN files
                 THEN goto(assign(frames, c, "result", FileNotFound), c, "done")
                 ELSE goto(frames, c, "delete_remove")
    /\ UNCHANGED <<quantum, blob>>

\* os.remove(filepath) and the 200 response; os.remove of a missing path
\* raises FileNotFoundError, which the handler's except turns into a 500
DeleteRemove ==
  \E c \in Callers :
    LET filename == frames[c].filename IN
    /\ frames[c].pc = "delete_remove"
    /\ UNCHANGED <<quantum, now>>
    /\ IF filename \notin DOMAIN files
       THEN /\ frames' = goto(assign(frames, c, "result", OSError), c, "done")
            /\ UNCHANGED <<files, deleted>>
       ELSE /\ files' = [f \in DOMAIN files \ {filename} |-> files[f]]
            /\ deleted' = deleted \cup {filename}
            /\ frames' = goto(assign(frames, c, "result",
                                     [http |-> 200, success |-> TRUE,
                                      message |-> "File deleted successfully",
                                      filename |-> filename]),
                              c, "done")

\* GET /download/<filename> arrives
BeginDownload ==
  \E c \in Callers, name \in UrlNames :
    /\ frames[c].pc = "idle"
    /\ frames' = [frames EXCEPT ![c] =
         [IdleFrame EXCEPT !.pc = "download_exists", !.fn = "download_file",
                           !.filename = secure_filename(name)]]
    /\ UNCHANGED <<quantum, blob>>

\* if not os.path.exists(filepath): return 404
DownloadExists ==
  \E c \in Callers :
    /\ frames[c].pc = "download_exists"
    /\ frames' = IF frames[c].filename \notin DOMAIN files
                 THEN goto(assign(frames, c, "result", FileNotFound), c, "done")
                 ELSE goto(frames, c, "download_send")
    /\ UNCHANGED <<quantum, blob>>

\* send_file(filepath, ...); opening a missing path raises
\* FileNotFoundError, which the handler's except turns into a 500
DownloadSend ==
  \E c \in Callers :
    LET filename == frames[c].filename IN
    /\ frames[c].pc = "download_send"
    /\ frames' = goto(assign(frames, c, "result",
                             IF filename \notin DOMAIN files
                             THEN OSError
                             ELSE [http |-> 200, download_name |-> filename,
                                   content |-> files[filename]]),
                      c, "done")
    /\ UNCHANGED <<quantum, blob>>

NextRace ==
  \/ FlaskUpload
  \/ BeginDelete
  \/ DeleteExists
  \/ DeleteRemove
  \/ BeginDownload
  \/ DownloadExists
  \/ DownloadSend
  \/ Return

SpecRace == Init /\ [][NextRace]_vars

\* ---------------------------------------------------------------- claims
\* the codeword of a logical bit
Codeword(b) == IF b = "0" THEN Str000 ELSE Str111

\* the circuit with every flip placed after the encoding CNOTs removed
RECURSIVE WithoutFlipsFrom(_, _)
WithoutFlipsFrom(circ, i) ==
  IF i > Len(circ) THEN <<>>
  ELSE (IF circ[i].g = "x" /\ \E j \in 1..(i - 1) : circ[j].g = "cx"
        THEN <<>> ELSE <<circ[i]>>)
       \o WithoutFlipsFrom(circ, i + 1)
WithoutFlips(circ) == WithoutFlipsFrom(circ, 1)

\* C1: on every 3-character string over {'0','1'} majority_vote returns
\* majority bit '0' exactly when at least two characters are '0', else '1'.
C1_MajorityBit ==
  (op = "majority_vote" /\ args.bit_string \in Binary3) =>
    /\ ret.status = "ok"
    /\ ret.majority_bit \in {"0", "1"}
    /\ ret.majority_bit = "0" <=>
         Cardinality({i \in 1..3 : args.bit_string[i] = "0"}) >= 2

C1_Witness ==
  /\ op = "majority_vote"
  /\ args.bit_string = <<"0", "1", "0">>
  /\ ret.status = "ok"
  /\ ret.majority_bit = "0"

C3_SingleFlipCorrectable ==
  /\ (op = "demonstrate_majority_vote" /\ args.error_qubit \in Qubits) =>
       /\ ret.status = "ok"
       /\ DOMAIN ret.measurements # {}
       /\ \A k \in DOMAIN ret.measurements :
            ret.measurements[k].majority_bit = args.initial_state
  /\ (op = "create_error_correction_circuit_v2" /\ args.error_qubit \in Qubits) =>
       /\ ret.status = "ok"
       /\ DOMAIN ret.error_analysis # {}
       /\ \A k \in DOMAIN ret.error_analysis :
            /\ ret.error_analysis[k].corrected_to = Codeword(args.initial_state)
            /\ ret.error_analysis[k].matches_expected

C3_Witness ==
  /\ op = "create_error_correction_circuit_v2"
  /\ args.initial_state = "1"
  /\ args.error_qubit = 2
  /\ ret.status = "ok"
  /\ <<"0", "1", "1">> \in DOMAIN ret.error_analysis
  /\ ret.error_analysis[<<"0", "1", "1">>].corrected_to = Str111

\* C4: when qubit k is flipped after encoding, the error position that
\* majority_vote and detect_error return for the outcome string the
\* simulator reports equals k.
C4_PositionIsFlippedQubit ==
  (op = "demonstrate_majority_vote" /\ args.error_qubit \in Qubits) =>
    \A k \in DOMAIN ret.measurements :
      /\ ret.measurements[k].error_position = args.error_qubit
      /\ detect_error(k).error_position = args.error_qubit

\* C5: a circuit built with no error qubit measures '000' on every shot for
\* initial state '0' and '111' for initial state '1'.
C5_RoundTripNoError ==
  /\ (op = "create_circuit_with_error" /\ args.error_qubit = None) =>
       DOMAIN counts = {Codeword(args.initial_state)}
  /\ (op = "create_error_correction_circuit_v2" /\ args.error_qubit = None) =>
       /\ DOMAIN counts.error = {Codeword(args.initial_state)}
       /\ DOMAIN counts.corrected = {Codeword(args.initial_state)}
  /\ (op = "flask_encode" /\ args.state \in {"0", "1"}) =>
       /\ DOMAIN counts = {Codeword(args.state)}
       /\ counts[Codeword(args.state)] = FlaskShots
       /\ ret.encoded_state = Codeword(args.state)

C5_Witness ==
  /\ op = "flask_encode"
  /\ args.state = "1"
  /\ get(counts, Str111) = FlaskShots

\* C6: error followed by correction at the same qubit measures exactly the
\* outcome the same circuit measures with no error injected.
C6_ErrorThenCorrectionIsIdentity ==
  /\ (op = "create_error_correction_circuit_v2" /\ args.error_qubit \in Qubits) =>
       DOMAIN counts.corrected = Outcomes(WithoutFlips(circuit.corrected))
  /\ (op = "cli_simulate_correction" /\ args.error_qubit \in Qubits) =>
       DOMAIN counts = Outcomes(WithoutFlips(circuit))
  /\ (op = "flask_correct" /\ args.state \in {"0", "1"}
        /\ args.error_qubit \in Qubits) =>
       DOMAIN counts = Outcomes(WithoutFlips(circuit))

C6_Witness ==
  /\ op = "create_error_correction_circuit_v2"
  /\ args.initial_state = "1"
  /\ args.error_qubit = 0
  /\ Len(WithoutFlips(circuit.corrected)) = Len(circuit.corrected) - 2
  /\ DOMAIN counts.corrected = {Str111}
  /\ DOMAIN counts.error = {<<"1", "1", "0">>}

\* C7: POST /pipeline with state '0' or '1' and an error qubit in {0,1,2}
\* reports success_rate 100 and corrected = true; every shot measures the
\* codeword of the state.
C7_FlaskPipelineSucceeds ==
  (op = "flask_pipeline" /\ args.state \in {"0", "1"} /\ ret.http = 200) =>
    /\ ret.pipeline.success_rate = 100
    /\ ret.pipeline.corrected
    /\ DOMAIN counts = {Codeword(args.state)}

\* C8: run_pipeline with initial_state '0' or '1' returns success_rate 100
\* and counts holding only the expected state, for every error qubit and
\* for a randomly picked one.
C8_RunPipelineSucceeds ==
  (op = "run_pipeline" /\ args.initial_state \in {"0", "1"}
     /\ args.error_qubit \in Qubits \cup {None} /\ ~args.simulator_fails) =>
    /\ ret.success_rate = 100
    /\ ret.expected_state = Codeword(args.initial_state)
    /\ DOMAIN ret.counts = {Codeword(args.initial_state)}

C8_Witness ==
  /\ op = "run_pipeline"
  /\ ~args.simulator_fails
  /\ args.initial_state = "1"
  /\ args.error_qubit = None
  /\ \E i \in 1..Len(circuit) : circuit[i] = X(2)
  /\ ret.success_rate = 100
  /\ get(ret.counts, Str111) = args.shots

\* C9: for initial_state '+' or '-' every shot of run_pipeline measures
\* '000' or '111', both count as success, success_rate is 100 and
\* expected_state is 'superposition'.
C9_SuperpositionSucceeds ==
  (op = "run_pipeline" /\ args.initial_state \in {"+", "-"}
     /\ args.error_qubit \in Qubits /\ ~args.simulator_fails) =>
    /\ DOMAIN ret.counts \subseteq {Str000, Str111}
    /\ ret.success_rate = 100
    /\ ret.expected_state = Superposition

C9_Witness ==
  /\ op = "run_pipeline"
  /\ ~args.simulator_fails
  /\ args.initial_state = "-"
  /\ args.error_qubit = 1
  /\ DOMAIN ret.counts = {Str000, Str111}
  /\ ret.success_rate = 100

\* C10: majority_vote and majority_vote_correction called with a string
\* whose length is not 3 fail with ValueError and return no result.
C10_WrongLengthRejected ==
  (op \in {"majority_vote", "majority_vote_correction"}
     /\ Len(args.bit_string) # 3) =>
    /\ ret.status = "ValueError"
    /\ DOMAIN ret = {"status", "msg"}

C10_Witness ==
  /\ op = "majority_vote_correction"
  /\ Len(args.bit_string) = 4
  /\ ret.status = "ValueError"

\* C11: majority_vote called with a 3-character string holding a character
\* other than '0' and '1' fails with ValueError and returns no result.
C11_NonBinaryRejected ==
  (op = "majority_vote" /\ Len(args.bit_string) = 3
     /\ args.bit_string \notin Binary3) =>
    /\ ret.status = "ValueError"
    /\ DOMAIN ret = {"status", "msg"}

\* C12: BitFlipErrorCorrection.detect_error called with a measurement string
\* whose length is not 3 fails with ValueError and returns no result.
C12_DetectErrorWrongLengthRejected ==
  (op = "detect_error" /\ Len(args.bit_string) # 3) =>
    /\ ret.status = "ValueError"
    /\ DOMAIN ret = {"status", "msg"}

\* C13: an error-qubit index outside {0,1,2} is rejected first:
\* introduce_bit_flip_error raises ValueError and leaves the circuit it was
\* given as it was; /error, /correct, /pipeline and /statevector (the last
\* two with random_error false) answer 400 'Invalid qubit', build no circuit
\* and never call the simulator.
C13_InvalidQubitRejectedFirst ==
  /\ (op = "introduce_bit_flip_error" /\ args.qubit_index \notin Qubits) =>
       /\ ret.status = "ValueError"
       /\ circuit = args.qc
       /\ sim_calls = 0
  /\ (op \in {"flask_error", "flask_correct"}
        /\ args.error_qubit \notin Qubits) =>
       /\ ret = InvalidQubit
       /\ circuit = NoCircuit
       /\ counts = NoCounts
       /\ sim_calls = 0
  /\ (op \in {"flask_pipeline", "flask_statevector"}
        /\ ~args.random_error /\ args.error_qubit \notin Qubits) =>
       /\ ret = InvalidQubit
       /\ circuit = NoCircuit
       /\ counts = NoCounts
       /\ sim_calls = 0

C13_Witness ==
  /\ op = "flask_statevector"
  /\ args.error_qubit = -1
  /\ ~args.random_error
  /\ ret.http = 400
  /\ ret.error = "Invalid qubit"
  /\ circuit = NoCircuit

\* C14: create_circuit_with_error, add_error_and_measure,
\* create_error_correction_circuit_v2 and create_full_pipeline called with
\* an error-qubit index outside {0,1,2} (3 or -1) fail with an error: no
\* circuit is returned and no simulation is run.
C14_BuildersRejectInvalidQubit ==
  (op \in {"create_circuit_with_error", "demonstrate_majority_vote",
           "create_error_correction_circuit_v2", "run_pipeline"}
     /\ args.error_qubit \notin Qubits \cup {None}) =>
    /\ ret.status \in {"ValueError", "CircuitError"}
    /\ circuit = NoCircuit
    /\ sim_calls = 0

\* the gates of a circuit, barriers left out
Gates(circ) == SelectSeq(circ, LAMBDA gate : gate.g # "barrier")

\* state preparation on qubit 0, the two encoding CNOTs, no flip or an error
\* flip and a corrective flip, the measurement, and nothing else
StagesInOrder(circ) ==
  LET ops == Gates(circ)
      n == Len(ops) IN
  \E p \in 0..2, f \in {0, 2} :
    /\ n = p + 2 + f + 1
    /\ \A i \in 1..p : ops[i].g \in {"x", "h"} /\ ops[i].q = 0
    /\ ops[p + 1] = CX(0, 1)
    /\ ops[p + 2] = CX(0, 2)
    /\ \A i \in (p + 3)..(p + 2 + f) : ops[i].g = "x"
    /\ ops[n] = MeasureAll

\* C15: every pipeline circuit (create_full_pipeline, the corrected circuit
\* of create_error_correction_circuit_v2, cli run_full_pipeline, Flask
\* /pipeline) is state preparation, the two encoding CNOTs, error flip,
\* corrective flip, measurement, in that order, each stage once, the
\* measurement last.
C15_StagesInOrder ==
  /\ (op = "run_pipeline" /\ circuit # NoCircuit) => StagesInOrder(circuit)
  /\ (op = "create_error_correction_circuit_v2" /\ circuit # NoCircuit) =>
       StagesInOrder(circuit.corrected)
  /\ op = "cli_run_full_pipeline" => StagesInOrder(circuit)
  /\ (op = "flask_pipeline" /\ ret.http = 200) => StagesInOrder(circuit)

\* C16: when the simulator fails during run_pipeline or simulate_circuit the
\* failure itself is what the caller gets: no result dict, no counts, and the
\* simulator was invoked once.
C16_SimulatorFailurePropagates ==
  (op \in {"run_pipeline", "simulate_circuit"} /\ args.simulator_fails
     /\ sim_calls >= 1) =>
    /\ ret.status = "SimulatorError"
    /\ DOMAIN ret = {"status"}
    /\ counts = NoCounts
    /\ sim_calls = 1

C16_Witness ==
  /\ op = "run_pipeline"
  /\ args.simulator_fails
  /\ circuit # NoCircuit
  /\ ret = SimulatorError
  /\ sim_calls = 1

\* C17: POST /add_error answers as POST /error does for the same body: the
\* same status and the same response fields.
C17_AddErrorIsAlias ==
  op = "flask_add_error" =>
    IF args.error_qubit \notin Qubits
    THEN ret = InvalidQubit
    ELSE /\ ret.http = 200
         /\ counts \in Simulate(flask_error_circuit(args.state, args.error_qubit),
                                FlaskShots)
         /\ ret = flask_error_response(args.state, args.error_qubit, counts)

\* the X gates placed after the encoding stage
FlipsAfterEncoding(circ) ==
  LET e == CHOOSE i \in 1..Len(circ) : circ[i] = Barrier("Encoded") IN
  SelectSeq(SubSeq(circ, e + 1, Len(circ)), LAMBDA gate : gate.g = "x")

HasBarrier(circ, label) == \E i \in 1..Len(circ) : circ[i] = Barrier(label)

\* C20: the circuit of create_full_pipeline holds, after the encoding stage,
\* either no X gate or exactly two, the error flip and the corrective flip,
\* both on the qubit index introduce_error returned.
C20_CorrectionMatchesError ==
  (op = "run_pipeline" /\ circuit # NoCircuit) =>
    LET xs == FlipsAfterEncoding(circuit) IN
    \/ /\ xs = <<>>
       /\ \A e \in ErrorQubitInputs :
            /\ ~HasBarrier(circuit, "Error@q" \o QubitName(e))
            /\ ~HasBarrier(circuit, "Correct@q" \o QubitName(e))
    \/ \E e \in ErrorQubitInputs \ {None} :
         /\ xs = <<X(e), X(e)>>
         /\ HasBarrier(circuit, "Error@q" \o QubitName(e))
         /\ HasBarrier(circuit, "Correct@q" \o QubitName(e))
         /\ args.error_qubit # None => e = args.error_qubit

C20_Witness ==
  /\ op = "run_pipeline"
  /\ args.error_qubit = None
  /\ circuit # NoCircuit
  /\ FlipsAfterEncoding(circuit) = <<X(0), X(0)>>
  /\ HasBarrier(circuit, "Error@q0")
  /\ HasBarrier(circuit, "Correct@q0")

\* the stored names GET /files answered with
Listed == {ret.files[i].filename : i \in 1..Len(ret.files)}

\* C18: once POST /upload has returned f, GET /download/f returns the file
\* and GET /files lists f; once DELETE /delete/f has succeeded, GET
\* /download/f and a further DELETE /delete/f answer 404 and GET /files does
\* not list f, whatever requests come in between.
C18_BlobLifecycle ==
  [][/\ (op' = "upload" /\ ret'.http = 200) =>
          /\ ret'.filename \in DOMAIN files'
          /\ files'[ret'.filename] = args'.content
     /\ (op' = "download" /\ args'.filename \in DOMAIN files) =>
          /\ ret'.http = 200
          /\ ret'.content = files[args'.filename]
     /\ (op' = "files") => Listed' = DOMAIN files
     /\ (op' = "download" /\ args'.filename \in deleted) => ret'.http = 404
     /\ (op' = "delete" /\ args'.filename \in deleted) => ret'.http = 404
     /\ (op' = "files") => Listed' \cap deleted = {}]_vars

\* the results run_pipeline can return when it runs alone
RunPipelineAlone(initial_state, error_qubit, shots) ==
  UNION {UNION {{run_pipeline_result(initial_state, qc, cn, shots) :
                   cn \in Simulate(qc, shots)} :
                qc \in {create_full_pipeline(initial_state, error_qubit, r, rq) :
                          rq \in RandintDraws(error_qubit = None)}} :
         r \in 0..(RandScale - 1)}

CorruptedWord(initial_state, k) ==
  Key([q \in Qubits |-> IF (initial_state = "1") = (q = k) THEN 0 ELSE 1])

\* C21: create_full_error_correction_circuit(initial_state, error_qubit = k,
\* apply_correction = True) corrects the injected error: for initial_state
\* in {'0','1'} and k in {0,1,2} every shot reads the codeword of
\* initial_state in 'final' and the corrupted word in 'syndrome'.
C21_FullCircuitCorrects ==
  (/\ op = "create_full_error_correction_circuit"
   /\ args.error_qubit \in Qubits
   /\ args.apply_correction)
  => \A key \in DOMAIN counts :
       /\ final_of(key) = Codeword(args.initial_state)
       /\ syndrome_of(key) = CorruptedWord(args.initial_state, args.error_qubit)

AnnouncedOutcome ==
  (<<"0", 0>> :> <<"1", "0", "0">>) @@ (<<"0", 1>> :> <<"0", "1", "0">>)
  @@ (<<"0", 2>> :> <<"0", "0", "1">>) @@ (<<"1", 1>> :> <<"1", "0", "1">>)

\* C23: create_circuit_with_error measures the outcome that
\* demonstrate_bit_flip_errors announces for it: from '0', an error on qubit
\* 0 gives '100', on qubit 1 '010', on qubit 2 '001'; from '1', an error on
\* qubit 1 gives '101'.
C23_AnnouncedOutcomeMeasured ==
  (/\ op = "create_circuit_with_error"
   /\ ret.status = "ok"
   /\ <<args.initial_state, args.error_qubit>> \in DOMAIN AnnouncedOutcome)
  => DOMAIN counts
       = {AnnouncedOutcome[<<args.initial_state, args.error_qubit>>]}

\* the basis states a stage gives probability 1, when every other basis
\* state has probability 0; {} otherwise
CertainStates(stage) ==
  IF \A k \in DOMAIN stage : stage[k] \in {0, 1}
  THEN {k \in DOMAIN stage : stage[k] = 1} ELSE {}

\* the positions where two basis-state labels differ, as qubit numbers
DifferingQubits(k1, k2) == {q \in Qubits : k1[3 - q] # k2[3 - q]}

\* C24: for state in {'0','1'} and every error qubit k in {0,1,2}, POST
\* /statevector returns four stages each with exactly one basis state of
\* probability 1; 'corrected' equals 'encoded', and 'with_error' is the
\* basis state that differs from the encoded one in exactly qubit k.
C24_StatevectorStages ==
  (/\ op = "flask_statevector"
   /\ ret.http = 200
   /\ args.state \in {"0", "1"})
  => /\ \A st \in {"initial", "encoded", "with_error", "corrected"} :
          Cardinality(CertainStates(ret.stages[st])) = 1
     /\ ret.stages.corrected = ret.stages.encoded
     /\ \A e \in CertainStates(ret.stages.encoded),
           w \in CertainStates(ret.stages.with_error) :
          DifferingQubits(e, w) = {ret.error_qubit}

C24_Witness ==
  /\ op = "flask_statevector"
  /\ ret.http = 200
  /\ args.state = "1"
  /\ ~args.random_error
  /\ args.error_qubit = 0
  /\ CertainStates(ret.stages.with_error) = {<<"1", "1", "0">>}
  /\ CertainStates(ret.stages.corrected) = {<<"1", "1", "1">>}

\* C25: an upload never overwrites an existing stored file: every successful
\* POST /upload stores its file under a name that no file already in the
\* upload folder has, two uploads of the same original filename in close
\* succession included.
C25_UploadNeverOverwrites ==
  [][(op' = "upload" /\ ret'.http = 200) => ret'.filename \notin DOMAIN files]_vars

\* C30: a DELETE /delete/<filename> or GET /download/<filename> for a file
\* that is not in the upload folder answers 404 'File not found' and never
\* a 500, also when another request deletes the file between this request's
\* existence check and its file operation.
C30_MissingFileIs404 ==
  \A c \in Callers :
    (/\ frames[c].pc = "done"
     /\ frames[c].fn \in {"delete_file", "download_file"})
    => frames[c].result.http # 500

\* C26: majority_vote, majority_vote_correction and detect_error are the
\* same decoder: on each of the 8 strings over {'0','1'} of length 3 they
\* return the same majority bit, the same error flag and the same error
\* position, and majority_vote_correction's corrected string is the input
\* with only that position set to the majority bit.
C26_SameDecoder ==
  (/\ op \in {"majority_vote", "majority_vote_correction", "detect_error"}
   /\ args.bit_string \in Binary3)
  => LET s == args.bit_string
         mv == IF op = "majority_vote" THEN ret ELSE majority_vote(s)
         mvc == IF op = "majority_vote_correction"
                THEN ret ELSE majority_vote_correction(s)
         de == IF op = "detect_error" THEN ret ELSE detect_error(s) IN
     /\ mv.status = "ok" /\ mvc.status = "ok" /\ de.status = "ok"
     /\ mv.majority_bit = de.majority_bit
     /\ mv.error_detected = de.error_detected
     /\ mv.error_detected = mvc.correction_applied
     /\ mv.error_position = de.error_position
     /\ mv.error_position = mvc.error_position
     /\ mvc.corrected_string =
          (IF mv.error_detected
           THEN [s EXCEPT ![mv.error_position + 1] = mv.majority_bit]
           ELSE s)

C26_Witness ==
  /\ op = "detect_error"
  /\ args.bit_string = <<"1", "0", "1">>
  /\ ret = [status |-> "ok", error_detected |-> TRUE, error_position |-> 1,
            majority_bit |-> "1"]
  /\ majority_vote_correction(args.bit_string).corrected_string = Str111

\* the positions where two strings of the same length differ
Differences(s1, s2) == {i \in 1..Len(s1) : s1[i] # s2[i]}

\* C27: majority_vote_correction lands on a codeword and is idempotent: for
\* every 3-bit string its corrected string is '000' or '111' and differs
\* from the input in at most one position, and correcting the corrected
\* string again returns it unchanged with error position None and
\* correction_applied false.
C27_CorrectionIdempotent ==
  (/\ op = "majority_vote_correction"
   /\ args.bit_string \in Binary3)
  => /\ ret.status = "ok"
     /\ ret.corrected_string \in {Str000, Str111}
     /\ Cardinality(Differences(ret.corrected_string, args.bit_string)) <= 1
     /\ majority_vote_correction(ret.corrected_string)
          = [status |-> "ok", corrected_string |-> ret.corrected_string,
             error_position |-> None, correction_applied |-> FALSE]

C27_Witness ==
  /\ op = "majority_vote_correction"
  /\ args.bit_string = <<"1", "1", "0">>
  /\ ret.corrected_string = Str111
  /\ ret.correction_applied
  /\ ~majority_vote_correction(ret.corrected_string).correction_applied

Opposite(b) == IF b = "0" THEN "1" ELSE "0"

\* the outcome string of the codeword of b with the qubits in Q flipped
FlippedCodeword(b, Q) ==
  Key([q \in Qubits |-> IF (b = "1") = (q \in Q) THEN 0 ELSE 1])

\* C28: two bit-flips defeat the code: for every logical bit b and every
\* pair of distinct qubits flipped after encoding, majority_vote returns the
\* opposite bit and majority_vote_correction returns the codeword of the
\* opposite bit while reporting a single error, as for a single flip of
\* the third qubit on the opposite codeword.
C28_TwoFlipsDefeatCode ==
  \A b \in {"0", "1"}, q1 \in Qubits, q2 \in Qubits :
    (q1 # q2 /\ op \in {"majority_vote", "majority_vote_correction"}
     /\ args.bit_string = FlippedCodeword(b, {q1, q2}))
    => /\ args.bit_string = FlippedCodeword(Opposite(b), Qubits \ {q1, q2})
       /\ ret.status = "ok"
       /\ ret.error_position \in 0..2
       /\ args.bit_string[ret.error_position + 1] = b
       /\ op = "majority_vote" =>
            ret.majority_bit = Opposite(b) /\ ret.error_detected
       /\ op = "majority_vote_correction" =>
            /\ ret.corrected_string = Codeword(Opposite(b))
            /\ ret.correction_applied

C28_Witness ==
  /\ op = "majority_vote_correction"
  /\ args.bit_string = FlippedCodeword("0", {0, 2})
  /\ args.bit_string = <<"1", "0", "1">>
  /\ ret = [status |-> "ok", corrected_string |-> Str111,
            error_position |-> 1, correction_applied |-> TRUE]

\* C29: the expected state a route or pipeline reports matches the state
\* its circuit prepares: for every state value that POST /encode, /correct,
\* /pipeline and run_pipeline accept, every shot of the error-free or fully
\* corrected circuit measures the reported encoded_state / expected_state,
\* and a fully corrected run is never reported with success_rate below 100.
C29_ExpectedStateMatchesCircuit ==
  /\ (op = "flask_encode" /\ ret.http = 200)
       => DOMAIN counts = {ret.encoded_state}
  /\ (op = "flask_correct" /\ ret.http = 200)
       => /\ DOMAIN counts = {ret.expected_state}
          /\ ret.success_rate = 100
  /\ (op = "flask_pipeline" /\ ret.http = 200)
       => /\ DOMAIN counts = {ret.pipeline.expected_state}
          /\ ret.pipeline.success_rate = 100
  /\ (op = "run_pipeline" /\ ret.status = "ok")
       => /\ IF ret.expected_state = Superposition
             THEN DOMAIN counts \subseteq {Str000, Str111}
             ELSE DOMAIN counts = {ret.expected_state}
          /\ ret.success_rate = 100
====
